---- MODULE Spec2Model ----
(***************************************************************************)
(* A model of linker.py: install_links, safe_link and safe_remove acting   *)
(* on a POSIX filesystem (directories, regular files, symbolic links).     *)
(*                                                                         *)
(* A pathlib path is a sequence of components; ".." is kept as a component *)
(* because pathlib never collapses it.  The filesystem is a function from  *)
(* physical paths (no "..", no symlink in the middle) to entries; the      *)
(* kernel's path walk (Walk) turns a pathlib path into a physical one.     *)
(***************************************************************************)
EXTENDS Naturals, Sequences, FiniteSets, TLC

VARIABLES
    fs,             \* the filesystem: physical path -> entry
    pc,             \* position of the program
    ret,            \* where safe_remove returns to: "next" (install_links), "link" (safe_link) or "caller" (called directly)
    i,              \* index of the entry of locations_full being processed
    locations,      \* the argument of install_links: sequence of <<dst, src>> items
    locations_full, \* the resolved dict, as its items in insertion order
    verbose_level,  \* the verbose_level argument
    out,            \* the notices printed so far
    err,            \* the exception that ended the run, "none" while there is none
    second,         \* TRUE in the second run of install_links with the same arguments
    fs0,            \* history: the filesystem when the current run started
    fs_entry,       \* the filesystem when the processing of the current item started
    muts,           \* history: the filesystem mutations of the current run, in order
    env,            \* history: for each system call of the current run, whether the environment let it through
    first           \* the run this one is compared with (same arguments, another verbose_level), NoRun when there is none

vars == <<fs, pc, ret, i, locations, locations_full, verbose_level, out, err, second, fs0, fs_entry, muts, env, first>>

\* ------------------------------------------------------------------ bounds

\* pre-existing backups X.bkp_0 .. X.bkp_(MaxBkp-1) may be present initially
MaxBkp == 2
\* the number of items of the locations mapping
MaxEntries == 2
\* symbolic links followed in one path walk before the kernel gives up (ELOOP)
MaxHops == 3

\* ------------------------------------------------------------------ VerboseLevel

NOTHING == 0
RENAME_FILE == 1
CREATE_LINK == 2
LINK_OK == 3
VerboseLevels == {NOTHING, RENAME_FILE, CREATE_LINK, LINK_OK}
MAX_VERBOSE == CHOOSE m \in VerboseLevels : \A v \in VerboseLevels : v <= m

\* ------------------------------------------------------------------ pathlib

\* a pathlib.Path: absolute or relative, and its components
RelPath(parts) == [abs |-> FALSE, parts |-> parts]
AbsPath(parts) == [abs |-> TRUE, parts |-> parts]
\* the value None of a mapping
None == [abs |-> FALSE, parts |-> <<"None">>]

\* Path.home()
Home == <<"h">>

\* Path.expanduser: a leading "~" component is replaced by the home directory
expanduser(p) ==
    IF (~p.abs) /\ p.parts # <<>> /\ Head(p.parts) = "~"
    THEN AbsPath(Home \o Tail(p.parts))
    ELSE p

\* root / p for an absolute root: an absolute p replaces the root
Join(root, p) == IF p.abs THEN p.parts ELSE root \o p.parts

\* Path.parent: the last component dropped, lexically; the root is its own parent
Parent(p) == IF p = <<>> THEN <<>> ELSE SubSeq(p, 1, Len(p) - 1)

\* root in p.parents: root is a proper lexical prefix of p
InParents(root, p) == Len(root) < Len(p) /\ SubSeq(p, 1, Len(root)) = root

\* Path(f"{p}.bkp_{i}")
BackupPath(p, n) ==
    IF p = <<>> THEN <<".bkp_" \o ToString(n)>>
    ELSE Append(Parent(p), p[Len(p)] \o ".bkp_" \o ToString(n))

\* ------------------------------------------------------------------ the filesystem

Dir(id) == [kind |-> "dir", id |-> id, target |-> <<>>]
File(id) == [kind |-> "file", id |-> id, target |-> <<>>]
Link(id, target) == [kind |-> "link", id |-> id, target |-> target]

IsPrefix(p, q) == Len(p) <= Len(q) /\ SubSeq(q, 1, Len(p)) = p

\* The kernel's path walk from the physical directory cur over the components
\* rest.  The last component is followed only when follow is set; the result
\* is the physical path reached, where an entry may or may not exist.
RECURSIVE Walk(_, _, _, _, _)
Walk(f, cur, rest, follow, fuel) ==
    IF rest = <<>> THEN [err |-> "ok", at |-> cur]
    ELSE LET c == Head(rest)
             t == Tail(rest)
             p == Append(cur, c)
         IN  IF c = ".." THEN Walk(f, Parent(cur), t, follow, fuel)
             ELSE IF p \notin DOMAIN f
                  THEN IF t = <<>> THEN [err |-> "ok", at |-> p]
                       ELSE [err |-> "ENOENT", at |-> p]
             ELSE IF f[p].kind = "link" /\ (t # <<>> \/ follow)
                  THEN IF fuel = 0 THEN [err |-> "ELOOP", at |-> p]
                       ELSE Walk(f, <<>>, f[p].target \o t, follow, fuel - 1)
             ELSE IF t = <<>> THEN [err |-> "ok", at |-> p]
             ELSE IF f[p].kind = "dir" THEN Walk(f, p, t, follow, fuel)
             ELSE [err |-> "ENOTDIR", at |-> p]

lstat(f, p) == Walk(f, <<>>, p, FALSE, MaxHops)
stat(f, p) == Walk(f, <<>>, p, TRUE, MaxHops)

\* Path.exists(follow_symlinks=...): ENOENT, ENOTDIR and ELOOP read as False
exists(f, p, follow_symlinks) ==
    LET r == IF follow_symlinks THEN stat(f, p) ELSE lstat(f, p)
    IN  r.err = "ok" /\ r.at \in DOMAIN f

is_dir(f, p) ==
    LET r == stat(f, p) IN r.err = "ok" /\ r.at \in DOMAIN f /\ f[r.at].kind = "dir"

is_symlink(f, p) ==
    LET r == lstat(f, p) IN r.err = "ok" /\ r.at \in DOMAIN f /\ f[r.at].kind = "link"

\* Path.readlink, called on a symlink only
readlink(f, p) == f[lstat(f, p).at].target

\* an unused inode number
NewId(f) == 1 + CHOOSE m \in {f[x].id : x \in DOMAIN f} : \A x \in DOMAIN f : f[x].id <= m

Under(f, P) == {x \in DOMAIN f : IsPrefix(P, x)}

\* the tree at P moved to Q (whatever was at Q is gone)
Move(f, P, Q) ==
    LET kept == {x \in DOMAIN f : ~IsPrefix(P, x) /\ ~IsPrefix(Q, x)}
        moved == {Q \o SubSeq(x, Len(P) + 1, Len(x)) : x \in Under(f, P)}
    IN  [y \in kept \cup moved |->
            IF IsPrefix(Q, y) THEN f[P \o SubSeq(y, Len(Q) + 1, Len(y))] ELSE f[y]]

\* rename(2): neither name is followed; an existing target is replaced when
\* the kinds allow it (a non-directory over a non-directory, a directory
\* over an empty directory)
os_rename(f, p, q) ==
    LET a == lstat(f, p)
        b == lstat(f, q)
    IN  IF a.err # "ok" THEN [err |-> a.err, fs |-> f]
        ELSE IF a.at \notin DOMAIN f THEN [err |-> "ENOENT", fs |-> f]
        ELSE IF b.err # "ok" THEN [err |-> b.err, fs |-> f]
        ELSE IF a.at = b.at THEN [err |-> "ok", fs |-> f]
        ELSE IF IsPrefix(a.at, b.at) THEN [err |-> "EINVAL", fs |-> f]
        ELSE IF IsPrefix(b.at, a.at) THEN [err |-> "ENOTEMPTY", fs |-> f]
        ELSE IF b.at \in DOMAIN f /\ f[a.at].kind = "dir" /\ f[b.at].kind # "dir"
             THEN [err |-> "ENOTDIR", fs |-> f]
        ELSE IF b.at \in DOMAIN f /\ f[a.at].kind # "dir" /\ f[b.at].kind = "dir"
             THEN [err |-> "EISDIR", fs |-> f]
        ELSE IF b.at \in DOMAIN f /\ Under(f, b.at) # {b.at}
             THEN [err |-> "ENOTEMPTY", fs |-> f]
        ELSE [err |-> "ok", fs |-> Move(f, a.at, b.at)]

\* mkdir(2)
os_mkdir(f, p) ==
    LET r == lstat(f, p)
    IN  IF r.err # "ok" THEN [err |-> r.err, fs |-> f]
        ELSE IF r.at \in DOMAIN f THEN [err |-> "EEXIST", fs |-> f]
        ELSE [err |-> "ok", fs |-> [y \in DOMAIN f \cup {r.at} |->
                                        IF y = r.at THEN Dir(NewId(f)) ELSE f[y]]]

\* symlink(2): the target is stored as given
os_symlink(f, target, p) ==
    LET r == lstat(f, p)
    IN  IF r.err # "ok" THEN [err |-> r.err, fs |-> f]
        ELSE IF r.at \in DOMAIN f THEN [err |-> "EEXIST", fs |-> f]
        ELSE [err |-> "ok", fs |-> [y \in DOMAIN f \cup {r.at} |->
                                        IF y = r.at THEN Link(NewId(f), target) ELSE f[y]]]

\* Path.mkdir(parents=False, exist_ok=True)
mkdir_exist_ok(f, p) ==
    LET r == os_mkdir(f, p)
    IN  IF r.err = "ok" \/ r.err = "ENOENT" THEN r
        ELSE IF is_dir(f, p) THEN [err |-> "ok", fs |-> f]
        ELSE r

\* Path.mkdir(parents=True, exist_ok=True)
RECURSIVE mkdir_parents(_, _)
mkdir_parents(f, p) ==
    LET r == os_mkdir(f, p)
    IN  IF r.err = "ok" THEN r
        ELSE IF r.err = "ENOENT"
             THEN IF Parent(p) = p THEN r
                  ELSE LET up == mkdir_parents(f, Parent(p))
                       IN  IF up.err # "ok" THEN up ELSE mkdir_exist_ok(up.fs, p)
        ELSE IF is_dir(f, p) THEN [err |-> "ok", fs |-> f]
        ELSE r

\* ------------------------------------------------------------------ the arguments

\* src_dir and dst_dir (dst_dir defaults to Path.home())
src_dir == <<"s">>
dst_dir == Home

\* The declared items the mappings are made of: destination = source
Entries == {
    <<RelPath(<<"a">>), RelPath(<<"f">>)>>,          \* a regular file
    <<RelPath(<<"a">>), RelPath(<<"d">>)>>,          \* a directory
    <<RelPath(<<"a">>), None>>,                      \* removal
    <<RelPath(<<"a">>), RelPath(<<"m">>)>>,          \* a source that does not exist
    <<RelPath(<<"a">>), RelPath(<<"l">>)>>,          \* a source that is a dangling symlink
    <<RelPath(<<"a">>), RelPath(<<"..", "e">>)>>,    \* a source outside src_dir
    <<RelPath(<<"a">>), RelPath(<<>>)>>,             \* ".": src_dir itself
    <<RelPath(<<"c">>), RelPath(<<"f">>)>>,          \* another destination
    <<RelPath(<<"a.bkp_0">>), None>>,                \* the name of a backup of "a"
    <<RelPath(<<"a", "b">>), RelPath(<<"f">>)>>,     \* nested under "a"
    <<RelPath(<<"a", "b">>), None>>,
    <<RelPath(<<"~", "a">>), RelPath(<<"d">>)>>,     \* the same place as "a", another key
    <<RelPath(<<"..", "e">>), RelPath(<<"f">>)>>,    \* leaves dst_dir through ".."
    <<AbsPath(<<"o">>), RelPath(<<"f">>)>>,          \* an absolute path outside dst_dir
    <<RelPath(<<>>), RelPath(<<"f">>)>>              \* ".": dst_dir itself
}

\* a dict: its keys are distinct
Mappings ==
    {m \in UNION {[1..n -> Entries] : n \in 0..MaxEntries} :
        \A j, k \in 1..Len(m) : m[j][1] = m[k][1] => j = k}

\* ------------------------------------------------------------------ the initial filesystem

FsOf(S) == [p \in {x[1] : x \in S} |-> (CHOOSE x \in S : x[1] = p)[2]]

\* what is at dst_dir/a before the first run
AKinds == {"absent", "file", "dir", "link_f", "link_d", "link_m"}

InitFs(a, bk) ==
    FsOf({<< <<>>, Dir(1) >>,
          << <<"h">>, Dir(2) >>,
          << <<"s">>, Dir(3) >>,
          << <<"s", "f">>, File(4) >>,
          << <<"s", "d">>, Dir(5) >>,
          << <<"s", "d", "c">>, File(6) >>,
          << <<"s", "l">>, Link(7, <<"s", "m">>) >>,
          << <<"e">>, File(8) >>}
         \cup (CASE a = "absent" -> {}
                 [] a = "file" -> {<< <<"h", "a">>, File(9) >>}
                 [] a = "dir" -> {<< <<"h", "a">>, Dir(9) >>, << <<"h", "a", "b">>, File(10) >>}
                 [] a = "link_f" -> {<< <<"h", "a">>, Link(9, <<"s", "f">>) >>}
                 [] a = "link_d" -> {<< <<"h", "a">>, Link(9, <<"s", "d">>) >>}
                 [] a = "link_m" -> {<< <<"h", "a">>, Link(9, <<"s", "m">>) >>})
         \cup {<< BackupPath(<<"h", "a">>, n),
                  IF n = 0 THEN Link(11, <<"s", "m">>) ELSE File(11 + n) >> : n \in bk})

\* no run to compare with
NoRun == [pc |-> "none", err |-> "none", level |-> NOTHING, fs |-> <<>>, muts |-> <<>>, out |-> <<>>, env |-> <<>>]

Init ==
    /\ \E a \in AKinds, bk \in SUBSET (0..(MaxBkp - 1)) : fs = InitFs(a, bk)
    /\ locations \in Mappings
    /\ verbose_level \in VerboseLevels
    /\ pc = "start"
    /\ ret = "next"
    /\ i = 1
    /\ locations_full = <<>>
    /\ out = <<>>
    /\ err = "none"
    /\ second = FALSE
    /\ fs0 = fs
    /\ fs_entry = fs
    /\ muts = <<>>
    /\ env = <<>>
    /\ first = NoRun

\* the paths safe_remove is called on directly: a destination, a missing one,
\* one beneath a destination, a backup, a dangling link
DirectPaths == {<<"h", "a">>, <<"h", "c">>, <<"h", "a", "b">>, <<"h", "a.bkp_0">>, <<"s", "l">>}

\* safe_remove(p, verbose_level) called directly instead of install_links
InitDirect ==
    /\ \E a \in AKinds, bk \in SUBSET (0..(MaxBkp - 1)) : fs = InitFs(a, bk)
    /\ locations = <<>>
    /\ verbose_level \in VerboseLevels
    /\ pc = "remove"
    /\ ret = "caller"
    /\ i = 1
    /\ \E p \in DirectPaths : locations_full = << <<AbsPath(p), None>> >>
    /\ out = <<>>
    /\ err = "none"
    /\ second = FALSE
    /\ fs0 = fs
    /\ fs_entry = fs
    /\ muts = <<>>
    /\ env = <<>>
    /\ first = NoRun

\* ------------------------------------------------------------------ install_links

\* d[k] = v on a dict kept as its items: a present key keeps its position
DictSet(d, k, v) ==
    IF \E j \in 1..Len(d) : d[j][1] = k
    THEN [j \in 1..Len(d) |-> IF d[j][1] = k THEN <<k, v>> ELSE d[j]]
    ELSE Append(d, <<k, v>>)

\* {dst_dir / dst.expanduser(): src and src_dir / src for dst, src in locations.items()}
RECURSIVE ResolveItems(_, _)
ResolveItems(items, d) ==
    IF items = <<>> THEN d
    ELSE LET dst == Head(items)[1]
             src == Head(items)[2]
         IN  ResolveItems(Tail(items),
                 DictSet(d, AbsPath(Join(dst_dir, expanduser(dst))),
                            IF src = None THEN None ELSE AbsPath(Join(src_dir, src))))

Resolve ==
    /\ pc = "start"
    /\ locations_full' = ResolveItems(locations, <<>>)
    /\ pc' = "check"
    /\ UNCHANGED <<fs, ret, i, locations, verbose_level, out, err, second, fs0, fs_entry, muts, env, first>>

\* a bug: only the first item is checked
FirstBad_FirstOnly(d, j) ==
    IF j > Len(d) THEN 0
    ELSE IF ~InParents(dst_dir, d[j][1].parts) THEN j
    ELSE IF d[j][2] # None /\ ~InParents(src_dir, d[j][2].parts) THEN j
    ELSE 0

\* the first item that fails a check, 0 when all pass
RECURSIVE FirstBad(_, _)
FirstBad(d, j) ==
    IF j > Len(d) THEN 0
    ELSE IF ~InParents(dst_dir, d[j][1].parts) THEN j
    ELSE IF d[j][2] # None /\ ~InParents(src_dir, d[j][2].parts) THEN j
    ELSE FirstBad(d, j + 1)

CheckLocations ==
    /\ pc = "check"
    /\ LET b == FirstBad(locations_full, 1)
       IN  IF b = 0 THEN pc' = "create" /\ err' = err
           ELSE /\ pc' = "raised"
                /\ err' = IF ~InParents(dst_dir, locations_full[b][1].parts)
                          THEN "ValueError: only linking files into"
                          ELSE "ValueError: only linking files from"
    /\ i' = 1
    /\ UNCHANGED <<fs, ret, locations, locations_full, verbose_level, out, second, fs0, fs_entry, muts, env, first>>

\* a bug: the source is tested without following links
src_found_NoFollow(f, src) == exists(f, src, FALSE)

\* line 116: src.exists(follow_symlinks=True)
src_found(f, src) == exists(f, src, TRUE)

\* a bug: the test for a link that is already right is missing
already_linked_Never(f, src, dst) == FALSE

\* a bug: any symlink at dst is taken to be right
already_linked_AnyLink(f, src, dst) == is_symlink(f, dst)

\* a bug: the link's target is compared with the source relative to src_dir
already_linked_Relative(f, src, dst) ==
    is_symlink(f, dst) /\ readlink(f, dst) = SubSeq(src, Len(src_dir) + 1, Len(src))

\* a bug: the return of line 122 sits under the verbosity test of line 120
already_linked_Loud(f, src, dst) ==
    verbose_level >= LINK_OK /\ is_symlink(f, dst) /\ readlink(f, dst) = src

\* line 119: dst.is_symlink() and dst.readlink() == src
already_linked(f, src, dst) == is_symlink(f, dst) /\ readlink(f, dst) = src

\* a bug: the destination is tested following links
dst_present_Follow(f, dst) == exists(f, dst, TRUE)

\* a bug: the destination is always taken to be free
dst_present_Never(f, dst) == FALSE

\* a bug: safe_remove is called without the test
dst_present_Always(f, dst) == TRUE

\* lines 123, 163: dst.exists(follow_symlinks=False)
dst_present(f, dst) == exists(f, dst, FALSE)

\* lines 89, 97: p.exists(follow_symlinks=False), asserted
p_exists(f, p) == exists(f, p, FALSE)

\* the item being processed
cur_dst == locations_full[i][1].parts
cur_src == locations_full[i][2]

Notice(kind, a, b, isdir) == [kind |-> kind, a |-> a, b |-> b, is_dir |-> isdir]
Mutation(op, at, to) == [op |-> op, at |-> at, to |-> to, entry |-> i]

\* a bug: the level itself does not report (> for >=)
Emit_Strict(level, notice) == IF verbose_level > level THEN Append(out, notice) ELSE out

\* a notice written under "if verbose_level >= level"
Emit(level, notice) == IF verbose_level >= level THEN Append(out, notice) ELSE out

\* a bug: the error of an item is swallowed and the loop goes on
Raise_Swallow(e) ==
    /\ pc' = "create"
    /\ err' = err
    /\ i' = i + 1

\* a bug: the operation that failed is tried again
Raise_Retry(e) ==
    /\ pc' = pc
    /\ err' = err
    /\ i' = i

\* an exception raised while an item is processed leaves install_links
Raise(e) ==
    /\ pc' = "raised"
    /\ err' = e
    /\ i' = i

\* the loop of lines 161-166 has run over every item
Finish ==
    /\ pc = "create"
    /\ i > Len(locations_full)
    /\ pc' = "done"
    /\ UNCHANGED <<fs, ret, i, locations, locations_full, verbose_level, out, err, second, fs0, fs_entry, muts, env, first>>

\* lines 162-164: src is None
RemoveEntry ==
    /\ pc = "create"
    /\ i <= Len(locations_full)
    /\ cur_src = None
    /\ IF dst_present(fs, cur_dst)
       THEN pc' = "remove" /\ ret' = "next" /\ i' = i
       ELSE pc' = "create" /\ ret' = ret /\ i' = i + 1
    /\ fs_entry' = fs
    /\ UNCHANGED <<fs, locations, locations_full, verbose_level, out, err, second, fs0, muts, env, first>>

\* safe_link up to its first mutation, lines 113-124
SafeLink ==
    /\ pc = "create"
    /\ i <= Len(locations_full)
    /\ cur_src # None
    /\ LET src == cur_src.parts
           dst == cur_dst
       IN  IF ~src_found(fs, src)
           THEN Raise("ValueError: src not found") /\ UNCHANGED <<ret, out>>
           ELSE IF already_linked(fs, src, dst)
           THEN /\ out' = Emit(LINK_OK, Notice("exists", dst, src, is_dir(fs, src)))
                /\ i' = i + 1
                /\ UNCHANGED <<pc, ret, err>>
           ELSE IF dst_present(fs, dst)
           THEN pc' = "remove" /\ ret' = "link" /\ UNCHANGED <<i, out, err>>
           ELSE pc' = "mkdir" /\ UNCHANGED <<ret, i, out, err>>
    /\ fs_entry' = fs
    /\ UNCHANGED <<fs, locations, locations_full, verbose_level, second, fs0, muts, env, first>>

\* what the environment does to the next system call: anything, but in a run
\* that is compared with another one, what it did to the same call there
EnvOutcomes ==
    IF first.pc # "none" /\ Len(env) < Len(first.env)
    THEN {first.env[Len(env) + 1]}
    ELSE BOOLEAN

\* a bug: the backup is always .bkp_0
FirstFree_Zero(f, p, n) == 0

\* a bug: the number of backups present is taken for the free index
FirstFree_Count(f, p, n) ==
    Cardinality({j \in 0..(MaxBkp + MaxEntries) : exists(f, BackupPath(p, j), FALSE)})

\* for i in count(): the first index whose backup path does not exist
RECURSIVE FirstFree(_, _, _)
FirstFree(f, p, n) ==
    IF ~exists(f, BackupPath(p, n), FALSE) THEN n ELSE FirstFree(f, p, n + 1)

\* safe_remove, lines 88-98.  A system call may also fail for a reason of
\* the environment (permissions, I/O), and then changes nothing.
SafeRemove ==
    /\ pc = "remove"
    /\ LET p == cur_dst
       IN  IF ~p_exists(fs, p)
           THEN Raise("AssertionError") /\ UNCHANGED <<fs, out, muts, env>>
           ELSE LET p_backup == BackupPath(p, FirstFree(fs, p, 0))
                IN  /\ out' = Emit(RENAME_FILE, Notice("renaming", p, p_backup, FALSE))
                    /\ \E env_ok \in EnvOutcomes :
                         LET r == IF env_ok THEN os_rename(fs, p, p_backup)
                                  ELSE [err |-> "EACCES", fs |-> fs]
                         IN  /\ env' = Append(env, env_ok)
                             /\ IF r.err # "ok"
                                THEN Raise("OSError") /\ UNCHANGED <<fs, muts>>
                                ELSE
                                  /\ fs' = r.fs
                                  /\ muts' = Append(muts, Mutation("rename",
                                                lstat(fs, p).at, lstat(fs, p_backup).at))
                                  /\ IF p_exists(r.fs, p)
                                     THEN Raise("AssertionError")
                                     ELSE IF ret = "next"
                                     THEN pc' = "create" /\ i' = i + 1 /\ err' = err
                                     ELSE IF ret = "link"
                                     THEN pc' = "mkdir" /\ i' = i /\ err' = err
                                     ELSE pc' = "returned" /\ i' = i /\ err' = err
    /\ UNCHANGED <<ret, locations, locations_full, verbose_level, second, fs0, fs_entry, first>>

\* the paths of S, parents before children
RECURSIVE ByLength(_)
ByLength(S) ==
    IF S = {} THEN <<>>
    ELSE LET x == CHOOSE x \in S : \A y \in S : Len(x) <= Len(y)
         IN  <<x>> \o ByLength(S \ {x})

\* a bug: the directories are made up to dst itself
dst_parent_Self == cur_dst

\* line 127: dst.parent
dst_parent == Parent(cur_dst)

\* safe_link, lines 125-127: the notice, then dst.parent.mkdir(exist_ok=True, parents=True);
\* is_dir was computed at line 115, when safe_link began
Mkdir ==
    /\ pc = "mkdir"
    /\ out' = Emit(CREATE_LINK, Notice("linking", cur_dst, cur_src.parts, is_dir(fs_entry, cur_src.parts)))
    /\ \E env_ok \in EnvOutcomes :
         LET r == IF env_ok THEN mkdir_parents(fs, dst_parent)
                  ELSE [err |-> "EACCES", fs |-> fs]
             made == ByLength(DOMAIN r.fs \ DOMAIN fs)
         IN  /\ env' = Append(env, env_ok)
             /\ IF r.err # "ok"
                THEN Raise("OSError") /\ UNCHANGED <<fs, muts>>
                ELSE /\ fs' = r.fs
                     /\ muts' = muts \o [k \in 1..Len(made) |-> Mutation("mkdir", made[k], <<>>)]
                     /\ pc' = "symlink"
                     /\ i' = i
                     /\ err' = err
    /\ UNCHANGED <<ret, locations, locations_full, verbose_level, second, fs0, fs_entry, first>>

\* safe_link, line 128: dst.symlink_to(src)
Symlink ==
    /\ pc = "symlink"
    /\ \E env_ok \in EnvOutcomes :
         LET r == IF env_ok THEN os_symlink(fs, cur_src.parts, cur_dst)
                  ELSE [err |-> "EACCES", fs |-> fs]
         IN  /\ env' = Append(env, env_ok)
             /\ IF r.err # "ok"
                THEN Raise("OSError") /\ UNCHANGED <<fs, muts>>
                ELSE /\ fs' = r.fs
                     /\ muts' = Append(muts, Mutation("symlink", lstat(fs, cur_dst).at, cur_src.parts))
                     /\ pc' = "create"
                     /\ i' = i + 1
                     /\ err' = err
    /\ UNCHANGED <<ret, locations, locations_full, verbose_level, out, second, fs0, fs_entry, first>>

\* install_links called once more with the same arguments after it returned
Rerun ==
    /\ pc = "done"
    /\ ~second
    /\ second' = TRUE
    /\ pc' = "start"
    /\ i' = 1
    /\ locations_full' = <<>>
    /\ out' = <<>>
    /\ fs0' = fs
    /\ fs_entry' = fs
    /\ muts' = <<>>
    /\ env' = <<>>
    /\ UNCHANGED <<fs, ret, locations, verbose_level, err, first>>

\* install_links called again on the filesystem the finished run started
\* from, with the same arguments but the next verbose_level, in the same
\* environment
Replay ==
    /\ pc \in {"done", "raised"}
    /\ ~second
    /\ first.pc = "none"
    /\ verbose_level < MAX_VERBOSE
    /\ first' = [pc |-> pc, err |-> err, level |-> verbose_level, fs |-> fs,
                 muts |-> muts, out |-> out, env |-> env]
    /\ verbose_level' = verbose_level + 1
    /\ fs' = fs0
    /\ fs_entry' = fs0
    /\ pc' = "start"
    /\ err' = "none"
    /\ i' = 1
    /\ locations_full' = <<>>
    /\ out' = <<>>
    /\ muts' = <<>>
    /\ env' = <<>>
    /\ UNCHANGED <<ret, locations, second, fs0>>

Next ==
    \/ Resolve
    \/ CheckLocations
    \/ Finish
    \/ RemoveEntry
    \/ SafeLink
    \/ SafeRemove
    \/ Mkdir
    \/ Symlink
    \/ Rerun

Spec == Init /\ [][Next]_vars

\* one run of install_links, and the same run at the next verbose_level
NextLevels ==
    \/ Resolve
    \/ CheckLocations
    \/ Finish
    \/ RemoveEntry
    \/ SafeLink
    \/ SafeRemove
    \/ Mkdir
    \/ Symlink
    \/ Replay

SpecLevels == Init /\ [][NextLevels]_vars

\* one call, of install_links or of safe_remove
NextOnce ==
    \/ Resolve
    \/ CheckLocations
    \/ Finish
    \/ RemoveEntry
    \/ SafeLink
    \/ SafeRemove
    \/ Mkdir
    \/ Symlink

SpecCalls == (Init \/ InitDirect) /\ [][NextOnce]_vars

\* the interpreter always takes the next step of the call
FairCalls == SpecCalls /\ WF_vars(NextOnce)

TypeOK ==
    /\ pc \in {"start", "check", "create", "remove", "mkdir", "symlink", "done", "raised", "returned"}
    /\ ret \in {"next", "link", "caller"}
    /\ second \in BOOLEAN
    /\ (pc = "raised") = (err # "none")

\* ------------------------------------------------------------------ properties

\* the index of the item whose processing began last, 0 when none has begun
ContainmentErrors == {"ValueError: only linking files into", "ValueError: only linking files from"}
started ==
    IF pc \in {"start", "check"} \/ err \in ContainmentErrors THEN 0
    ELSE IF pc \in {"create", "done"} THEN i - 1
    ELSE i

\* a path with its ".." components resolved lexically
RECURSIVE Normalize(_, _)
Normalize(p, acc) ==
    IF p = <<>> THEN acc
    ELSE IF Head(p) = ".." THEN Normalize(Tail(p), Parent(acc))
    ELSE Normalize(Tail(p), Append(acc, Head(p)))

StrictDescendant(root, p) == InParents(root, Normalize(p, <<>>))

\* C1: a mapping with a destination that is not a strict descendant of dst_dir
\* makes install_links fail with a containment violation, the filesystem unchanged.
C1_Containment ==
    (/\ pc \notin {"start", "check"}
     /\ \E j \in 1..Len(locations) :
            ~StrictDescendant(dst_dir, Join(dst_dir, expanduser(locations[j][1]))))
    => (pc = "raised" /\ err \in ContainmentErrors /\ fs = fs0)

\* the indices a backup made in a run can get
BkpIndices == 0..(MaxBkp + MaxEntries)

\* the name x is the name c with at most k suffixes .bkp_N
RECURSIVE BackupOfName(_, _, _)
BackupOfName(c, x, k) ==
    \/ x = c
    \/ /\ k > 0
       /\ \/ \E n \in BkpIndices : x = c \o ".bkp_" \o ToString(n)
          \/ \E n \in BkpIndices : BackupOfName(c \o ".bkp_" \o ToString(n), x, k - 1)

\* q is p, or p with .bkp_N suffixes on some of its components
BkpVariant(p, q) ==
    q = p \/ (Len(q) = Len(p) /\ \A k \in 1..Len(p) : BackupOfName(p[k], q[k], MaxEntries))

\* every entry of f0 is in f, unchanged, at its path or at a backup of it
Preserved(f0, f) ==
    \A p \in DOMAIN f0 : \E q \in DOMAIN f : f[q] = f0[p] /\ BkpVariant(p, q)

\* one step deletes nothing, overwrites nothing, and adds directories and symlinks only
GentleStep ==
    /\ \A p \in DOMAIN fs \cap DOMAIN fs' : fs'[p] = fs[p]
    /\ \A p \in DOMAIN fs : \E q \in DOMAIN fs' : fs'[q] = fs[p]
    /\ \A q \in DOMAIN fs' \ DOMAIN fs :
          \/ \E p \in DOMAIN fs \ DOMAIN fs' : fs[p] = fs'[q]
          \/ /\ fs'[q].kind \in {"dir", "link"}
             /\ \A p \in DOMAIN fs : fs[p].id # fs'[q].id

\* C2: no data is ever destroyed: in every state of a run, finished or aborted,
\* every entry that existed before the run exists unchanged at its path or at
\* a .bkp_N path, and every step is a rename to a free name, a new directory
\* or a new symlink at a free path.
C2_NoDataDestroyed == [][GentleStep /\ Preserved(fs0', fs')]_vars

\* a directory was backed up with its content, then the run aborted
C2_Witness ==
    /\ pc = "raised"
    /\ err = "OSError"
    /\ <<"h", "a">> \notin DOMAIN fs
    /\ <<"h", "a", "b">> \in DOMAIN fs0
    /\ <<"h", "a.bkp_0", "b">> \in DOMAIN fs
    /\ fs[<<"h", "a.bkp_0", "b">>] = fs0[<<"h", "a", "b">>]

\* every item passes the checks of lines 156-159
AllChecked ==
    \A j \in 1..Len(locations_full) :
        /\ InParents(dst_dir, locations_full[j][1].parts)
        /\ locations_full[j][2] = None \/ InParents(src_dir, locations_full[j][2].parts)

\* C3: every item is checked before the first mutation: a run that raises a
\* containment violation has changed nothing, and a run that changed
\* something has checked all its items.
C3_FailFast ==
    /\ err \in ContainmentErrors => (fs = fs0 /\ muts = <<>>)
    /\ (fs # fs0 \/ muts # <<>>) => AllChecked

\* the second item is rejected; the first one is valid and had a file to back up
C3_Witness ==
    /\ pc = "raised"
    /\ err \in ContainmentErrors
    /\ Len(locations) = 2
    /\ locations[1] = <<RelPath(<<"a">>), RelPath(<<"f">>)>>
    /\ locations[2][1] = AbsPath(<<"o">>)
    /\ <<"h", "a">> \in DOMAIN fs
    /\ fs[<<"h", "a">>].kind = "file"

\* the resolved destinations of the mapping, ".." collapsed
ResolvedDsts ==
    {Normalize(Join(dst_dir, expanduser(locations[j][1])), <<>>) : j \in 1..Len(locations)}

\* one destination of the mapping lies beneath another one, or is (or lies
\* beneath) a backup name of another one
Nested ==
    \E p, q \in ResolvedDsts :
        /\ p # q
        /\ \/ IsPrefix(p, q)
           \/ \E n \in BkpIndices : IsPrefix(BackupPath(p, n), q)

BackedUp(f0, f, X) ==
    \E n \in BkpIndices :
        LET B == BackupPath(X, n)
        IN  /\ Parent(B) = Parent(X)
            /\ B \notin DOMAIN f0
            /\ \A j \in BkpIndices : j < n => BackupPath(X, j) \in DOMAIN f0
            /\ \A x \in Under(f0, X) :
                  LET y == B \o SubSeq(x, Len(X) + 1, Len(x))
                  IN  y \in DOMAIN f /\ f[y] = f0[x]

\* the backups of X present in f0 are the same in f
BackupsUntouched(f0, f, X) ==
    \A j \in BkpIndices :
        LET B == BackupPath(X, j)
        IN  B \in DOMAIN f0 => (B \in DOMAIN f /\ f[B] = f0[B])

\* C5: backup numbering: safe_remove renames the entry X to X.bkp_N in the
\* same directory, N the smallest index at which nothing exists (a dangling
\* symlink counts as something), and leaves the backups already there alone.
C5_BackupNumbering ==
    [][(pc = "remove" /\ pc' # "raised") =>
          LET X == lstat(fs, cur_dst).at
          IN  /\ X \in DOMAIN fs
              /\ X \notin DOMAIN fs'
              /\ BackedUp(fs, fs', X)
              /\ BackupsUntouched(fs, fs', X)]_vars

\* with X.bkp_0 (a dangling symlink) and X.bkp_1 present, X went to X.bkp_2
C5_Witness ==
    /\ {<<"h", "a">>, <<"h", "a.bkp_0">>, <<"h", "a.bkp_1">>} \subseteq DOMAIN fs0
    /\ {<<"h", "a.bkp_0">>, <<"h", "a.bkp_1">>, <<"h", "a.bkp_2">>} \subseteq DOMAIN fs
    /\ fs0[<<"h", "a">>].id = 9
    /\ fs[<<"h", "a.bkp_2">>].id = 9
    /\ fs[<<"h", "a.bkp_0">>] = fs0[<<"h", "a.bkp_0">>]
    /\ fs[<<"h", "a.bkp_1">>] = fs0[<<"h", "a.bkp_1">>]
    /\ <<"h", "a">> \notin DOMAIN fs

\* the item whose processing began last, and whether it was processed to its end
E_dst == locations_full[started][1].parts
E_src == locations_full[started][2]
ItemDone == started >= 1 /\ pc \in {"create", "done"}

\* in f the path p is a symlink whose literal target is t
LinkTo(f, p, t) ==
    LET r == lstat(f, p)
    IN  r.err = "ok" /\ r.at \in DOMAIN f /\ f[r.at].kind = "link" /\ f[r.at].target = t

\* in f something is at p, links not followed
Occupied(f, p) == LET r == lstat(f, p) IN r.err = "ok" /\ r.at \in DOMAIN f

\* in f the path p leads to an entry, links followed
Resolves(f, p) == LET r == stat(f, p) IN r.err = "ok" /\ r.at \in DOMAIN f

\* no mutation of the current run belongs to item k
NoMutationOf(k) == \A n \in 1..Len(muts) : muts[n].entry # k

\* C6: conflict replacement: a link item whose source exists and whose
\* destination holds anything but a symlink to the source (a file, a
\* directory, a dangling or foreign symlink) ends with the destination a
\* symlink to the source and the former entry unchanged at destination.bkp_N,
\* N the smallest free index.
C6_ConflictReplacement ==
    (/\ ItemDone
     /\ E_src # None
     /\ Resolves(fs_entry, E_src.parts)
     /\ Occupied(fs_entry, E_dst)
     /\ ~LinkTo(fs_entry, E_dst, E_src.parts))
    => LET X == lstat(fs_entry, E_dst).at
       IN  /\ LinkTo(fs, E_dst, E_src.parts)
           /\ lstat(fs, E_dst).at = X
           /\ BackedUp(fs_entry, fs, X)
           /\ BackupsUntouched(fs_entry, fs, X)

\* a directory was at the destination: it is at .bkp_0 with its content, and
\* the destination is a link to the source directory
C6_Witness ==
    /\ ItemDone
    /\ started = 1
    /\ locations_full[1] = <<AbsPath(<<"h", "a">>), AbsPath(<<"s", "d">>)>>
    /\ <<"h", "a">> \in DOMAIN fs_entry
    /\ fs_entry[<<"h", "a">>].kind = "dir"
    /\ {<<"h", "a">>, <<"h", "a.bkp_0">>, <<"h", "a.bkp_0", "b">>} \subseteq DOMAIN fs
    /\ fs[<<"h", "a.bkp_0">>] = fs_entry[<<"h", "a">>]
    /\ fs[<<"h", "a">>].target = <<"s", "d">>

\* C7: correct-link no-op: when the source exists and the destination is a
\* symlink whose literal target is the absolute source path, safe_link
\* returns at once and the filesystem is as it was.
C7_CorrectLinkNoOp ==
    (/\ started >= 1
     /\ E_src # None
     /\ Resolves(fs_entry, E_src.parts)
     /\ LinkTo(fs_entry, E_dst, E_src.parts))
    => (pc \in {"create", "done"} /\ fs = fs_entry /\ NoMutationOf(started))

\* the first item found its link in place; the second one is still to come
C7_Witness ==
    /\ pc = "create"
    /\ started = 1
    /\ Len(locations_full) = 2
    /\ locations_full[1] = <<AbsPath(<<"h", "a">>), AbsPath(<<"s", "f">>)>>
    /\ <<"h", "a">> \in DOMAIN fs_entry
    /\ fs_entry[<<"h", "a">>] = Link(9, <<"s", "f">>)
    /\ fs = fs_entry

\* C8: removal: an item without a source whose destination holds something
\* (links not followed) ends with that entry at destination.bkp_N, N the
\* smallest free index, nothing at the destination and nothing else changed;
\* when the destination holds nothing the item changes nothing.
C8_Removal ==
    (ItemDone /\ E_src = None)
    => IF Occupied(fs_entry, E_dst)
       THEN LET X == lstat(fs_entry, E_dst).at
            IN  /\ ~Occupied(fs, E_dst)
                /\ X \notin DOMAIN fs
                /\ BackedUp(fs_entry, fs, X)
                /\ Cardinality(DOMAIN fs) = Cardinality(DOMAIN fs_entry)
                /\ \A y \in DOMAIN fs_entry : ~IsPrefix(X, y) => (y \in DOMAIN fs /\ fs[y] = fs_entry[y])
       ELSE fs = fs_entry /\ NoMutationOf(started)

\* a dangling symlink was at the destination and .bkp_0 was taken: it is at .bkp_1
C8_Witness ==
    /\ ItemDone
    /\ started = 1
    /\ locations_full[1] = <<AbsPath(<<"h", "a">>), None>>
    /\ {<<"h", "a">>, <<"h", "a.bkp_0">>} \subseteq DOMAIN fs_entry
    /\ fs_entry[<<"h", "a">>] = Link(9, <<"s", "m">>)
    /\ <<"h", "a">> \notin DOMAIN fs
    /\ <<"h", "a.bkp_1">> \in DOMAIN fs
    /\ fs[<<"h", "a.bkp_1">>] = Link(9, <<"s", "m">>)

\* C9: missing source: a link item whose source leads to no entry when links
\* are followed makes safe_link raise "src not found", and the filesystem is
\* as it was when the item began, whatever is at the destination.
C9_MissingSource ==
    (/\ started >= 1
     /\ E_src # None
     /\ ~Resolves(fs_entry, E_src.parts))
    => (/\ pc = "raised"
        /\ err = "ValueError: src not found"
        /\ fs = fs_entry
        /\ NoMutationOf(started))

\* the destination is a link whose target is the missing source itself
C9_Witness ==
    /\ pc = "raised"
    /\ err = "ValueError: src not found"
    /\ started = 1
    /\ E_src = AbsPath(<<"s", "m">>)
    /\ <<"h", "a">> \in DOMAIN fs
    /\ fs[<<"h", "a">>] = Link(9, <<"s", "m">>)

\* every entry of f0 is in f as it was, at its path or, when the item that
\* failed had renamed it, at the path the rename gave it
PriorStand(f0, f) ==
    \A x \in DOMAIN f0 :
        \/ x \in DOMAIN f /\ f[x] = f0[x]
        \/ \E n \in 1..Len(muts) :
              /\ muts[n].entry = started
              /\ muts[n].op = "rename"
              /\ IsPrefix(muts[n].at, x)
              /\ LET y == muts[n].to \o SubSeq(x, Len(muts[n].at) + 1, Len(x))
                 IN  y \in DOMAIN f /\ f[y] = f0[x]

\* C10: abort without rollback: when the processing of item k fails,
\* install_links ends with that error; what items 1..k-1 did stays as it was
\* made, no item after k is touched and nothing runs after the error.
C10_AbortNoRollback ==
    /\ (started >= 1 /\ E_src # None /\ ~Resolves(fs_entry, E_src.parts)) => pc = "raised"
    /\ (pc = "raised" /\ started >= 1)
       => /\ err \in {"ValueError: src not found", "OSError"}
          /\ \A n \in 1..Len(muts) : muts[n].entry <= started
          /\ PriorStand(fs_entry, fs)
          /\ ~ENABLED Next

\* the second item fails for its missing source after the first one had made a link
C10_Witness ==
    /\ pc = "raised"
    /\ err = "ValueError: src not found"
    /\ started = 2
    /\ \E n \in 1..Len(muts) : muts[n].entry = 1 /\ muts[n].op = "symlink"
    /\ fs # fs0

\* a run is compared with an earlier one
Compared == first.pc # "none"
Ended == pc \in {"done", "raised"}

SeqPrefix(a, b) == Len(a) <= Len(b) /\ SubSeq(b, 1, Len(a)) = a

\* C11: verbosity is purely observational: two runs of install_links that
\* differ in verbose_level only (same mapping, same roots, same initial
\* filesystem, same environment) perform the same sequence of mutations, end
\* in the same filesystem and with the same outcome, success or the same error.
C11_VerbosityObservational ==
    Compared =>
        /\ SeqPrefix(muts, first.muts)
        /\ SeqPrefix(env, first.env)
        /\ Ended => /\ pc = first.pc
                    /\ err = first.err
                    /\ muts = first.muts
                    /\ fs = first.fs

\* both runs backed up what was at the destination and failed at the same
\* system call; what they reported differs
C11_Witness ==
    /\ Compared
    /\ pc = "raised"
    /\ first.err = "OSError"
    /\ Len(first.muts) >= 1
    /\ first.muts[1].op = "rename"
    /\ muts = first.muts
    /\ out # first.out

\* C12: source containment: a mapping with an item whose source is given and
\* whose resolved source is not a strict descendant of src_dir (such as
\* "../outside", or src_dir itself) makes install_links fail with a
\* containment violation before any mutation; an item without a source is
\* exempt from the source check but not from the destination check.
C12_SourceContainment ==
    /\ (/\ pc \notin {"start", "check"}
        /\ \E j \in 1..Len(locations_full) :
               \/ /\ locations_full[j][2] # None
                  /\ ~StrictDescendant(src_dir, locations_full[j][2].parts)
               \/ /\ locations_full[j][2] = None
                  /\ ~InParents(dst_dir, locations_full[j][1].parts))
       => (pc = "raised" /\ err \in ContainmentErrors /\ fs = fs0 /\ muts = <<>>)
    /\ err = "ValueError: only linking files from"
       => \E j \in 1..Len(locations_full) : locations_full[j][2] # None

\* an item of the mapping as line 151 resolves it
ResolvedItem(it) ==
    <<AbsPath(Join(dst_dir, expanduser(it[1]))),
      IF it[2] = None THEN None ELSE AbsPath(Join(src_dir, it[2]))>>

\* C13: batch order: after validation the removal-or-link step is applied to
\* every item of the input mapping exactly once, in insertion order, also
\* when two declared destinations ("~/a" and "a" with dst_dir the home
\* directory) resolve to the same absolute path.
C13_BatchOrder ==
    pc = "done" =>
        /\ started = Len(locations)
        /\ Len(locations_full) = Len(locations)
        /\ \A j \in 1..Len(locations) : locations_full[j] = ResolvedItem(locations[j])

\* the place of a mutation in safe_link
Rank(op) == CASE op = "rename" -> 1 [] op = "mkdir" -> 2 [] op = "symlink" -> 3

\* the mutations of one item come in the order rename, mkdir, symlink, with
\* one rename and one symlink at most
OrderedMuts ==
    \A a, b \in 1..Len(muts) :
        (a < b /\ muts[a].entry = muts[b].entry)
        => /\ Rank(muts[a].op) <= Rank(muts[b].op)
           /\ muts[a].op = muts[b].op => muts[a].op = "mkdir"

\* the step of line 128, when it succeeds, puts a symlink with the absolute
\* source as its literal target where nothing was, and changes nothing else
FreshLink ==
    (pc = "symlink" /\ pc' # "raised")
    => LET X == lstat(fs, cur_dst).at
       IN  /\ X \notin DOMAIN fs
           /\ DOMAIN fs' = DOMAIN fs \cup {X}
           /\ fs'[X].kind = "link"
           /\ fs'[X].target = Join(src_dir, locations[CHOOSE j \in 1..Len(locations) :
                                     /\ ResolvedItem(locations[j])[1].parts = cur_dst
                                     /\ \A k \in (j + 1)..Len(locations) :
                                            ResolvedItem(locations[k])[1].parts # cur_dst][2])
           /\ \A y \in DOMAIN fs : fs'[y] = fs[y]

\* no other step makes a symlink
LinksFromSymlinkOnly ==
    pc # "symlink"
    => \A q \in DOMAIN fs' :
          fs'[q].kind = "link" => \E y \in DOMAIN fs : fs[y] = fs'[q]

\* when the mkdir or the symlink of an item fails, what the item had backed
\* up is at its backup path, with the tree under it
BackupStays ==
    (pc \in {"mkdir", "symlink"} /\ pc' = "raised")
    => /\ err' = "OSError"
       /\ \A n \in 1..Len(muts') :
             (muts'[n].entry = i /\ muts'[n].op = "rename")
             => \A x \in Under(fs_entry, muts'[n].at) :
                   LET y == muts'[n].to \o SubSeq(x, Len(muts'[n].at) + 1, Len(x))
                   IN  y \in DOMAIN fs' /\ fs'[y] = fs_entry[x]

\* C14: rename-then-link ordering within one item: safe_link performs its
\* mutations in the order (1) rename of the existing destination to its
\* backup, (2) creation of the missing parent directories, (3) creation of
\* the symlink; the symlink is only ever created where nothing exists, its
\* literal target is the absolute source path, and when step 2 or 3 fails
\* the original entry is still at its backup path.
C14_RenameThenLink ==
    [][/\ OrderedMuts'
       /\ pc' = "symlink" => ~Occupied(fs', cur_dst')
       /\ FreshLink
       /\ LinksFromSymlinkOnly
       /\ BackupStays]_vars

\* the destination was renamed to its backup, the parent was there, and the
\* environment made the symlink fail: the backup is in place, the destination empty
C14_Witness ==
    /\ pc = "raised"
    /\ err = "OSError"
    /\ env = <<TRUE, TRUE, FALSE>>
    /\ started = 1
    /\ Len(muts) = 1
    /\ muts[1].op = "rename"
    /\ muts[1].to \in DOMAIN fs
    /\ ~Occupied(fs, E_dst)

\* the number of notices of a kind in a log
Count(log, kind) == Cardinality({n \in 1..Len(log) : log[n].kind = kind})

\* the log grows by one notice of the kind when yes, and not at all otherwise
Reports(kind, yes) ==
    IF yes
    THEN /\ Len(out') = Len(out) + 1
         /\ SubSeq(out', 1, Len(out)) = out
         /\ out'[Len(out')].kind = kind
    ELSE out' = out

\* what each step reports: a backup (line 94), a link creation (line 125), a
\* link found right (line 120); nothing else is reported
TierStep ==
    IF pc = "remove" /\ Occupied(fs, cur_dst)
    THEN Reports("renaming", verbose_level \in {RENAME_FILE, CREATE_LINK, LINK_OK})
    ELSE IF pc = "mkdir"
    THEN Reports("linking", verbose_level \in {CREATE_LINK, LINK_OK})
    ELSE IF pc = "create" /\ pc' = "create" /\ i' = i + 1 /\ cur_src # None
    THEN Reports("exists", verbose_level = LINK_OK)
    ELSE pc' # "start" => out' = out

\* the tier at which a notice is reported
Tier(kind) ==
    CASE kind = "renaming" -> RENAME_FILE
      [] kind = "linking" -> CREATE_LINK
      [] kind = "exists" -> LINK_OK

AtMost(log, level) == SelectSeq(log, LAMBDA n : Tier(n.kind) <= level)

\* a is b with some of its elements left out
RECURSIVE Subsequence(_, _)
Subsequence(a, b) ==
    IF a = <<>> THEN TRUE
    ELSE IF b = <<>> THEN FALSE
    ELSE IF Head(a) = Head(b) THEN Subsequence(Tail(a), Tail(b))
    ELSE Subsequence(a, Tail(b))

\* the log of the run at level k is the log of the run at level k + 1 without
\* the notices of tier k + 1
Cumulative ==
    Compared =>
        /\ verbose_level = first.level + 1
        /\ SeqPrefix(AtMost(out, first.level), first.out)
        /\ Ended => /\ first.out = AtMost(out, first.level)
                    /\ Subsequence(first.out, out)

\* C15: verbosity tiers are cumulative: a rename notice is emitted for a
\* backup exactly when the level is at least RENAME_FILE, a link-creation
\* notice exactly when it is at least CREATE_LINK, an already-correct notice
\* exactly when it is LINK_OK, nothing at NOTHING; the notices of a run at
\* level k are a subsequence of those of the same run at level k + 1.
C15_CumulativeTiers ==
    [][/\ TierStep
       /\ verbose_level' = NOTHING => out' = <<>>
       /\ Cumulative']_vars

\* the run at LINK_OK reported a link found right and one more notice; the
\* same run at CREATE_LINK reported the other notice only
C15_Witness ==
    /\ Compared
    /\ Ended
    /\ verbose_level = LINK_OK
    /\ Count(out, "exists") = 1
    /\ Len(out) = 2
    /\ Len(first.out) = 1
    /\ first.out[1] = out[2]

\* the path of the item the last mutation belongs to
LastPath == locations_full[muts[Len(muts)].entry][1].parts

\* C16: assertion validity: in every run of install_links both assertions of
\* safe_remove hold when they are reached: safe_link and the removal branch
\* call safe_remove only on a path where something exists, links not
\* followed, and after the rename nothing exists at the original path; a
\* direct call of safe_remove on a path where nothing exists fails with the
\* assertion and renames nothing.
C16_AssertionValidity ==
    /\ ret # "caller" => err # "AssertionError"
    /\ (ret # "caller" /\ pc = "remove") => Occupied(fs, cur_dst)
    /\ (muts # <<>> /\ muts[Len(muts)].op = "rename") => ~Occupied(fs, LastPath)
    /\ (ret = "caller" /\ pc # "remove")
       => IF Occupied(fs0, cur_dst)
          THEN err # "AssertionError"
          ELSE /\ pc = "raised"
               /\ err = "AssertionError"
               /\ fs = fs0
               /\ muts = <<>>
               /\ env = <<>>

\* safe_remove was called directly on a path beneath a dangling symlink, where
\* nothing exists: the assertion failed and nothing was renamed
C16_Witness ==
    /\ ret = "caller"
    /\ pc = "raised"
    /\ err = "AssertionError"
    /\ cur_dst = <<"h", "a", "b">>
    /\ <<"h", "a">> \in DOMAIN fs
    /\ fs[<<"h", "a">>].kind = "link"
    /\ fs = fs0

\* what item j of the mapping asks for is the case in f
Installed(f, j) ==
    LET it == ResolvedItem(locations[j])
    IN  IF it[2] # None
        THEN LinkTo(f, it[1].parts, it[2].parts)
        ELSE ~Occupied(f, it[1].parts)

\* two items of the mapping name the same destination with different sources
Conflicting ==
    \E j, k \in 1..Len(locations) :
        /\ ResolvedItem(locations[j])[1] = ResolvedItem(locations[k])[1]
        /\ ResolvedItem(locations[j])[2] # ResolvedItem(locations[k])[2]

\* C17 as claimed: batch postcondition: when install_links returns, every
\* item with a source has at its destination a symlink whose literal target
\* is the absolute source path, and every item without a source has nothing
\* at its destination, for every mapping, also with one destination nested
\* under another.
C17_Postcondition ==
    pc = "done" => \A j \in 1..Len(locations) : Installed(fs, j)

\* C17 amended: the batch postcondition for the mappings in which no
\* destination lies beneath another destination or at a backup name of one,
\* and no two items name the same destination with different sources.
C17_PostconditionUnnested ==
    (pc = "done" /\ ~Nested /\ ~Conflicting)
    => \A j \in 1..Len(locations) : Installed(fs, j)

\* a removal and a link, both with something to back up, are done: nothing is
\* at the first destination, the link at the second
C17_Witness ==
    /\ pc = "done"
    /\ ~second
    /\ ~Nested
    /\ locations = << <<RelPath(<<"a.bkp_0">>), None>>, <<RelPath(<<"c">>), RelPath(<<"f">>)>> >>
    /\ <<"h", "a.bkp_0">> \in DOMAIN fs0
    /\ <<"h", "a.bkp_0">> \notin DOMAIN fs
    /\ LinkTo(fs, <<"h", "c">>, <<"s", "f">>)

\* every destination of the mapping denotes a place strictly under dst_dir
DstsInside == \A p \in ResolvedDsts : InParents(dst_dir, p)

\* C18: mutations stay inside the destination root: with src_dir and dst_dir
\* disjoint, every rename, directory creation and symlink creation of
\* install_links touches only entries physically located strictly under
\* dst_dir; the source tree and everything outside dst_dir are unchanged,
\* also when a destination lies beneath a destination that has become a
\* symlink to a source directory.
C18_MutationsInsideRoot ==
    DstsInside =>
        /\ \A n \in 1..Len(muts) :
              /\ InParents(dst_dir, muts[n].at)
              /\ muts[n].op = "rename" => InParents(dst_dir, muts[n].to)
        /\ \A x \in DOMAIN fs0 \cup DOMAIN fs :
              ~InParents(dst_dir, x) => (x \in DOMAIN fs0 /\ x \in DOMAIN fs /\ fs[x] = fs0[x])

\* the number of backups X.bkp_j of the path p present in f
Backups(f, p) == Cardinality({j \in BkpIndices : exists(f, BackupPath(p, j), FALSE)})

\* the probe of lines 90-93 tries the candidates 0 .. FirstFree: one more
\* than there are backups, at most
ProbeBound ==
    (pc = "remove" /\ Occupied(fs, cur_dst))
    => FirstFree(fs, cur_dst, 0) + 1 <= Backups(fs, cur_dst) + 1

\* the number of mutations of a kind made for item k
Made(k, op) == Cardinality({n \in 1..Len(muts) : muts[n].entry = k /\ muts[n].op = op})

OncePerEntry ==
    \A k \in 1..Len(locations_full) : Made(k, "rename") <= 1 /\ Made(k, "symlink") <= 1

\* a system call that failed is the last one of the run
NoRetry ==
    /\ Len(env) <= 3 * Len(locations_full)
    /\ \A k \in 1..Len(env) : ~env[k] => (k = Len(env) /\ pc = "raised")
    /\ pc = "raised" => ~ENABLED NextOnce

Terminated == pc \in {"done", "raised", "returned"}

\* C19: termination: the backup-index probe of safe_remove stops after at
\* most (number of existing X.bkp_i + 1) candidates, and install_links
\* eventually returns or raises, after at most one backup rename and one link
\* creation per item; a failed filesystem operation is never retried.
C19_Termination ==
    /\ [](ProbeBound /\ OncePerEntry /\ NoRetry)
    /\ <>Terminated

\* the probe passed two backups, and the run ended after a rename and a link
\* for its one item
C19_Witness ==
    /\ pc = "done"
    /\ Len(locations_full) = 1
    /\ Made(1, "rename") = 1
    /\ Made(1, "symlink") = 1
    /\ muts[1].to = <<"h", "a.bkp_2">>
    /\ env = <<TRUE, TRUE, TRUE>>

====
